---- MODULE Spec2Model ----
(***************************************************************************)
(* RepoCheck-Backend: the upload controller (uploadFiles) as a state       *)
(* machine.  One invocation of the handler is followed from the decoded    *)
(* batch (req.files) through validation, the per-file rasterize/recognize  *)
(* loop, the structured-extraction call, the scoring relay, the deviation  *)
(* analyzer loop and the response, with every fs.unlink the handler        *)
(* issues.  The program counter stands at the handler's await points.      *)
(*                                                                         *)
(* Numbers: lab values and range limits are kept in tenths (12.0 -> 120),  *)
(* deviations in tenths of a percent (6.3 % -> 63), so that                *)
(* Math.round(deviation * 10) / 10 is integer arithmetic.  The program     *)
(* computes in IEEE-754 doubles: where the exact product deviation * 10    *)
(* is a tie k + 1/2, the double product can fall just below it, and        *)
(* ProductBelowTie lists the inputs of the model for which it does.        *)
(***************************************************************************)
EXTENDS Integers, Sequences, FiniteSets, TLC

VARIABLES
    pc,                \* position of the handler: an await point, "analyze" or "done"
    files,             \* req.files, the decoded batch
    filesToCleanUp,    \* the handler's list of paths to delete
    unlinked,          \* every path handed to fs.unlink, in call order
    idx,               \* position of the for-of loop over req.files (1-based)
    combinedText,      \* the segments appended to combinedText, in order
    calls,             \* number of calls made to each collaborator
    ocrLog,            \* what each processed file's rasterize/recognize call did
    geminiReply,       \* what ai.models.generateContent did
    relayOutcome,      \* what the POST to FLASK_BACKEND_URL did
    labValues,         \* structuredData.features || []
    i,                 \* the analyzer loop's index
    analysisItems,     \* the analyzer loop's output list
    isLifeThreatening, \* the analyzer loop's flag
    res,               \* the response sent to the caller (status 0: none yet)
    unlinkState,       \* per call in unlinked: "pending", or how it settled
    storage,           \* the paths present in the uploads directory
    cleanups,          \* the cleanup sites that ran, in order
    now,               \* what Date.now() returns
    written            \* the files the naming scheme placed, as [req, path]

vars == <<pc, files, filesToCleanUp, unlinked, idx, combinedText, calls, ocrLog,
          geminiReply, relayOutcome, labValues, i, analysisItems,
          isLifeThreatening, res, unlinkState, storage, cleanups, now, written>>

----------------------------------------------------------------------------
(* Bounds of the model. *)

\* longest batch the model enumerates (the route admits up to UploadLimit)
MaxFiles == 4

\* longest feature vector the analyzer specification enumerates
MaxVecLen == 20

\* longest batch of the specification that follows the unlink calls
MaxCleanupFiles == 2

\* last clock reading and number of files of the storage specification
MaxTick == 2
MaxWritten == 3

----------------------------------------------------------------------------
(* Constants of the program. *)

\* upload.array('files', 10)
UploadLimit == 10

\* NORMAL_RANGES, in insertion order (which is ORDERED_KEYS), limits in tenths
NORMAL_RANGES == <<
    [name |-> "Hemoglobin (g/dL)",         range |-> <<120, 160>>],
    [name |-> "RBC Count (mil/cumm)",      range |-> <<42, 54>>],
    [name |-> "PCV/HCT (%)",               range |-> <<360, 460>>],
    [name |-> "MCV (fL)",                  range |-> <<800, 1000>>],
    [name |-> "MCH (pg)",                  range |-> <<270, 330>>],
    [name |-> "MCHC (g/dL)",               range |-> <<320, 360>>],
    [name |-> "RDW-CV (%)",                range |-> <<115, 145>>],
    [name |-> "Platelet Count (x10^3/uL)", range |-> <<1500, 4500>>],
    [name |-> "WBC/TLC Count (/cumm)",     range |-> <<40000, 110000>>],
    [name |-> "Neutrophils (%)",           range |-> <<400, 700>>],
    [name |-> "Lymphocytes (%)",           range |-> <<200, 400>>],
    [name |-> "Monocytes (%)",             range |-> <<20, 100>>],
    [name |-> "Eosinophils (%)",           range |-> <<10, 60>>],
    [name |-> "Basophils (%)",             range |-> <<0, 10>>],
    [name |-> "Blood Urea (mg/dL)",        range |-> <<100, 400>>],
    [name |-> "Serum Creatinine (mg/dL)",  range |-> <<6, 13>>],
    [name |-> "Sodium (mEq/L)",            range |-> <<1350, 1450>>],
    [name |-> "Potassium (mEq/L)",         range |-> <<35, 50>>],
    [name |-> "Chloride (mEq/L)",          range |-> <<980, 1070>>] >>

\* Object.keys(NORMAL_RANGES)
ORDERED_KEYS == [k \in 1..Len(NORMAL_RANGES) |-> NORMAL_RANGES[k].name]

\* NORMAL_RANGES[name] for name = ORDERED_KEYS[k]
RangeOf(k) == NORMAL_RANGES[k].range

----------------------------------------------------------------------------
(* Files and mime types.  A mime type is <<type, subtype>>, so that        *)
(* startsWith('image/') and === 'application/pdf' are different tests.     *)

MimeTypes == { <<"image", "png">>, <<"application", "pdf">>, <<"text", "plain">> }

\* f.mimetype.startsWith('image/')
IsImage(f) == f.mimetype[1] = "image"

\* f.mimetype === 'application/pdf'
IsPdf(f) == f.mimetype = <<"application", "pdf">>

\* multer's diskStorage: 'uploads/' + Date.now() + '-' + file.originalname
UploadPath(t, originalname) == <<"uploads", t, originalname>>

\* convertPdfToImage: 'uploads/' + 'page1-' + Date.now() + '-1.png', as
\* prefix, timestamp, page
convertPdfToImage(t) == <<"uploads/page1", t, 1>>

\* the elements of a sequence
Range(seq) == { seq[n] : n \in 1..Len(seq) }

\* the batches the transport layer can hand to the controller
Batches ==
    UNION { [1..n -> MimeTypes] : n \in 0..(IF MaxFiles < UploadLimit THEN MaxFiles ELSE UploadLimit) }

\* the original names of a batch of n files: all different, or the second
\* file has the name of the first
OriginalNames(n) ==
    { [k \in 1..n |-> k], [k \in 1..n |-> IF k = 2 THEN 1 ELSE k] }

\* req.files for a choice of mime types and original names, stored at time t
AsFiles(ms, names, t) ==
    [k \in 1..Len(ms) |-> [mimetype |-> ms[k], originalname |-> names[k],
                           path |-> UploadPath(t, names[k])]]

\* req.files.map(f => f.path)
Paths(fs) == [k \in 1..Len(fs) |-> fs[k].path]

----------------------------------------------------------------------------
(* Validation (uploadFiles, lines 131-141). *)

\* req.files.filter(f => f.mimetype.startsWith('image/'))
imageFiles(fs) == SelectSeq(fs, IsImage)

\* req.files.filter(f => f.mimetype === 'application/pdf')
pdfFiles(fs) == SelectSeq(fs, IsPdf)

\* !req.files || req.files.length === 0
NoFiles(fs) == Len(fs) = 0

\* mutant: the image limit off by one
PolicyRejectsOffByOne(fs) ==
    \/ Len(pdfFiles(fs)) > 1
    \/ Len(imageFiles(fs)) >= 3
    \/ (Len(pdfFiles(fs)) > 0 /\ Len(imageFiles(fs)) > 0)

\* the condition of the "maximum of 3 images OR 1 PDF" rejection
PolicyRejects(fs) ==
    \/ Len(pdfFiles(fs)) > 1
    \/ Len(imageFiles(fs)) > 3
    \/ (Len(pdfFiles(fs)) > 0 /\ Len(imageFiles(fs)) > 0)

\* mutant: the rejection deletes only the files it counted as images
RejectUnlinksImagesOnly(fs) == Paths(imageFiles(fs))

\* req.files.forEach(f => fs.unlink(f.path, () => {})) of the rejection branch
RejectUnlinks(fs) == Paths(fs)

----------------------------------------------------------------------------
(* Responses.  status 0 is "nothing sent yet". *)

NoResponse ==
    [status |-> 0, message |-> "", files |-> <<>>, items |-> <<>>,
     isLifeThreatening |-> FALSE]

\* res.status(s).json({ message: m })
Failure(s, m) ==
    [status |-> s, message |-> m, files |-> <<>>, items |-> <<>>,
     isLifeThreatening |-> FALSE]

\* analysisResult, sent with status 200
analysisResult(fs, items, flag) ==
    [status |-> 200, message |-> "File analysis complete. Deviations calculated.",
     files |-> Paths(fs), items |-> items, isLifeThreatening |-> flag]

MsgNoFiles == "No files were uploaded."
MsgPolicy  == "Upload a maximum of 3 images OR 1 PDF only."
MsgNoText  == "Files uploaded, but failed to extract any meaningful text via OCR."
MsgError   == "Error processing files or communicating with backend"

----------------------------------------------------------------------------
(* combinedText.  Each recognized file appends one segment                 *)
(*   "\n\n--- Start of <name> ---\n" + text + "\n--- End of <name> ---";   *)
(* text is kept by kind: "text" (something readable) or "blank" (empty or  *)
(* whitespace only).                                                       *)

TextKinds == {"text", "blank"}

Segment(k, text) == [file |-> k, text |-> text]

\* whether a segment consists of whitespace only: its delimiters never do
SegmentIsBlank(seg) == FALSE

\* !combinedText.trim()
TrimIsEmpty(ct) == \A n \in 1..Len(ct) : SegmentIsBlank(ct[n])

Collaborators == {"convert", "recognize", "generateContent", "fetch"}

Called(c, name) == [c EXCEPT ![name] = @ + 1]

----------------------------------------------------------------------------
(* The deviation analyzer (calculateDeviation and the loop of lines        *)
(* 231-267).  Values and limits in tenths, deviations in tenths of a       *)
(* percent.                                                                *)

\* -Infinity, the value of (value - 0) / 0 * 100 for a negative value: below
\* every deviation a finite value of the model can give
NegInfinity == 0 - 1000000000

\* Math.abs
Abs(x) == IF x < 0 THEN 0 - x ELSE x

\* the <<value, limit>> among the model's inputs whose exact product
\* ((value - limit) / limit) * 100 * 10 is a tie while the double product is
\* just below it (39.9, 37.9 and 31.9 against 40: -2.5000000000000355, ...)
ProductBelowTie == { <<399, 400>>, <<379, 400>>, <<319, 400>> }

\* mutant: the quotient is truncated downwards instead of rounded
MathRoundFloor(n, d) == n \div d

\* Math.round(n / d) for d > 0: the integer nearest to n / d, ties towards
\* +Infinity (Math.round(-0.5) is -0, Math.round(0.5) is 1)
MathRound(n, d) == (2 * n + d) \div (2 * d)

\* ((value - limit) / limit) * 100, then Math.round(deviation * 10) / 10
RoundedDeviation(value, limit) ==
    IF limit = 0
    THEN NegInfinity                       \* only lower = 0 with value < 0
    ELSE IF <<value, limit>> \in ProductBelowTie
    THEN MathRound((value - limit) * 1000, limit) - 1
    ELSE MathRound((value - limit) * 1000, limit)

\* calculateDeviation(value, [lower, upper])
calculateDeviation(value, range) ==
    IF value >= range[1] /\ value <= range[2]
    THEN 0
    ELSE IF value > range[2]
         THEN RoundedDeviation(value, range[2])
         ELSE RoundedDeviation(value, range[1])

\* value === 0 && (range[0] !== 0 || range[1] !== 0)
IsMissing(value, range) == value = 0 /\ (range[1] # 0 \/ range[2] # 0)

\* mutant: the thresholds are exclusive
CategorizeStrict(deviation) ==
    IF deviation = 0 THEN "Green"
    ELSE IF Abs(deviation) > 0 /\ Abs(deviation) < 50 THEN "Yellow"
    ELSE IF Abs(deviation) >= 50 /\ Abs(deviation) < 200 THEN "Red-Yellow"
    ELSE "Red"

\* the if / else-if chain that picks the category (5 % is 50, 20 % is 200)
Categorize(deviation) ==
    IF deviation = 0 THEN "Green"
    ELSE IF Abs(deviation) > 0 /\ Abs(deviation) <= 50 THEN "Yellow"
    ELSE IF Abs(deviation) > 50 /\ Abs(deviation) <= 200 THEN "Red-Yellow"
    ELSE "Red"

MissingSuffix == " (Missing/Defaulted)"

\* the item pushed for ORDERED_KEYS[k] (1-based k) and its value
ItemFor(k, value) ==
    IF IsMissing(value, RangeOf(k))
    THEN [category |-> "Yellow", name |-> ORDERED_KEYS[k] \o MissingSuffix,
          deviation |-> 0]
    ELSE [category |-> Categorize(calculateDeviation(value, RangeOf(k))),
          name |-> ORDERED_KEYS[k],
          deviation |-> calculateDeviation(value, RangeOf(k))]

\* whether the iteration for ORDERED_KEYS[k] executes isLifeThreatening = true
SetsFlag(k, value) ==
    /\ ~IsMissing(value, RangeOf(k))
    /\ Categorize(calculateDeviation(value, RangeOf(k))) = "Red"

\* mutant: the loop stops one element early
LoopContinuesShort(n, values) == n + 1 < Len(values) /\ n < Len(ORDERED_KEYS)

\* i < labValues.length && i < ORDERED_KEYS.length  (i counts from 0)
LoopContinues(n, values) == n < Len(values) /\ n < Len(ORDERED_KEYS)

----------------------------------------------------------------------------
(* Feature vectors the structured-extraction collaborator can return.      *)

\* a value in the middle of the k-th range (every extra position gets 1)
Mid(k) == IF k <= Len(NORMAL_RANGES) THEN (RangeOf(k)[1] + RangeOf(k)[2]) \div 2 ELSE 1

\* values around the limits and the category thresholds of a range
Probes(range) ==
    LET lo == range[1]
        hi == range[2]
    IN  { 0, 0 - 1, lo, hi, lo - 1, hi + 1,
          hi + (hi * 5) \div 100,  hi + (hi * 5) \div 100 + 1,
          hi + (hi * 20) \div 100, hi + (hi * 20) \div 100 + 1,
          lo - (lo * 5) \div 100,  lo - (lo * 5) \div 100 - 1,
          lo - (lo * 20) \div 100, lo - (lo * 20) \div 100 - 1,
          lo - lo \div 2000, lo - 3 * (lo \div 2000), hi + hi \div 2000,
          2 * hi }

\* a vector of length n: "normal" fills with in-range values, "zero" with the
\* 0 the collaborator is told to use for a field it cannot find; position p
\* (if any) holds v instead
Vector(n, fill, p, v) ==
    [k \in 1..n |-> IF k = p THEN v ELSE IF fill = "zero" THEN 0 ELSE Mid(k)]

Fills == {"normal", "zero"}

\* every vector of length up to n with at most one probed position
ProbeVectors(n) ==
    UNION { { Vector(m, fill, 0, 0) : fill \in Fills }
            \cup UNION { { Vector(m, fill, p, v) : v \in Probes(RangeOf(p)), fill \in Fills }
                         : p \in 1..(IF m < Len(NORMAL_RANGES) THEN m ELSE Len(NORMAL_RANGES)) }
          : m \in 0..n }

\* the vectors the pipeline specification draws from: empty, short, full
\* (normal, all defaulted, one far out of range) and overlong
SampleVectors ==
    { Vector(0, "normal", 0, 0),
      Vector(2, "normal", 0, 0),
      Vector(Len(NORMAL_RANGES), "normal", 0, 0),
      Vector(Len(NORMAL_RANGES), "zero", 0, 0),
      Vector(Len(NORMAL_RANGES), "normal", 3, 2 * RangeOf(3)[2]),
      Vector(Len(NORMAL_RANGES) + 1, "zero", 1, RangeOf(1)[1]) }

----------------------------------------------------------------------------
(* The handler. *)

\* uploadFiles is about to be called with a batch that multer stored
InitFrom(batches) ==
    /\ pc = "start"
    /\ now = 1
    /\ \E ms \in batches : \E names \in OriginalNames(Len(ms)) :
          files = AsFiles(ms, names, now)
    /\ storage = Range(Paths(files))
    /\ written = <<>>
    /\ filesToCleanUp = <<>>
    /\ unlinked = <<>>
    /\ unlinkState = <<>>
    /\ cleanups = <<>>
    /\ idx = 0
    /\ combinedText = <<>>
    /\ calls = [c \in Collaborators |-> 0]
    /\ ocrLog = <<>>
    /\ geminiReply = "none"
    /\ relayOutcome = "none"
    /\ labValues = <<>>
    /\ i = 0
    /\ analysisItems = <<>>
    /\ isLifeThreatening = FALSE
    /\ res = NoResponse

Init == InitFrom(Batches)

\* a cleanup site: fs.unlink(path, callback) for every path of the list; the
\* calls return at once and settle later
Unlink(paths, site) ==
    /\ unlinked' = unlinked \o paths
    /\ unlinkState' = unlinkState \o [k \in 1..Len(paths) |-> "pending"]
    /\ cleanups' = Append(cleanups, site)

\* the catch block: unlink every registered path, answer 500
Catch ==
    /\ Unlink(filesToCleanUp, "error")
    /\ res' = Failure(500, MsgError)
    /\ pc' = "done"

\* the for-of loop arriving at file k with combined text ct: start the file's
\* first call, or leave the loop, check the text and call generateContent
Proceed(k, ct) ==
    /\ idx' = k
    /\ UNCHANGED <<unlinked, unlinkState, cleanups>>
    /\ IF k <= Len(files)
       THEN /\ res' = res
            /\ IF IsPdf(files[k])
               THEN pc' = "awaitConvert" /\ calls' = Called(calls, "convert")
               ELSE pc' = "awaitRecognize" /\ calls' = Called(calls, "recognize")
       ELSE IF TrimIsEmpty(ct)
            THEN /\ res' = Failure(400, MsgNoText)
                 /\ pc' = "done"
                 /\ calls' = calls
            ELSE /\ res' = res
                 /\ pc' = "awaitGenerate"
                 /\ calls' = Called(calls, "generateContent")

\* uploadFiles is entered: validation, registration, first file's first call
Start ==
    /\ pc = "start"
    /\ UNCHANGED <<storage, now, written>>
    /\ UNCHANGED <<files, combinedText, ocrLog, geminiReply, relayOutcome, labValues,
                   i, analysisItems, isLifeThreatening>>
    /\ IF NoFiles(files)
       THEN /\ res' = Failure(400, MsgNoFiles)
            /\ pc' = "done"
            /\ UNCHANGED <<filesToCleanUp, unlinked, unlinkState, cleanups, idx, calls>>
       ELSE IF PolicyRejects(files)
       THEN /\ Unlink(RejectUnlinks(files), "validation")
            /\ res' = Failure(400, MsgPolicy)
            /\ pc' = "done"
            /\ UNCHANGED <<filesToCleanUp, idx, calls>>
       ELSE /\ filesToCleanUp' = filesToCleanUp \o Paths(files)
            /\ Proceed(1, combinedText)

\* poppler.convert resolves: register the page image, call Tesseract on it
ConvertOk ==
    /\ pc = "awaitConvert"
    /\ filesToCleanUp' = Append(filesToCleanUp, convertPdfToImage(now))
    /\ calls' = Called(calls, "recognize")
    /\ pc' = "awaitRecognize"
    /\ storage' = storage \cup {convertPdfToImage(now)}
    /\ UNCHANGED <<files, unlinked, unlinkState, cleanups, idx, combinedText, ocrLog,
                   geminiReply, relayOutcome, labValues, i, analysisItems,
                   isLifeThreatening, res, now, written>>

\* mutant: a failed conversion reaches the outer catch block
ConvertFailsAborts ==
    /\ pc = "awaitConvert"
    /\ ocrLog' = Append(ocrLog, "convertFailed")
    /\ Catch
    /\ UNCHANGED <<files, filesToCleanUp, idx, combinedText, calls, geminiReply,
                   relayOutcome, labValues, i, analysisItems, isLifeThreatening,
                   storage, now, written>>

\* poppler.convert rejects: the inner catch logs and continues with the next file
ConvertFails ==
    /\ pc = "awaitConvert"
    /\ UNCHANGED <<storage, now, written>>
    /\ ocrLog' = Append(ocrLog, "convertFailed")
    /\ Proceed(idx + 1, combinedText)
    /\ UNCHANGED <<files, filesToCleanUp, combinedText, geminiReply, relayOutcome,
                   labValues, i, analysisItems, isLifeThreatening>>

\* Tesseract.recognize resolves with a text: append its segment, next file
RecognizeOk ==
    /\ pc = "awaitRecognize"
    /\ UNCHANGED <<storage, now, written>>
    /\ \E text \in TextKinds :
         /\ combinedText' = Append(combinedText, Segment(idx, text))
         /\ ocrLog' = Append(ocrLog, text)
         /\ Proceed(idx + 1, Append(combinedText, Segment(idx, text)))
    /\ UNCHANGED <<files, filesToCleanUp, geminiReply, relayOutcome, labValues, i,
                   analysisItems, isLifeThreatening>>

\* Tesseract.recognize rejects: nothing in the loop catches it
RecognizeThrows ==
    /\ pc = "awaitRecognize"
    /\ UNCHANGED <<storage, now, written>>
    /\ ocrLog' = Append(ocrLog, "recognizeFailed")
    /\ Catch
    /\ UNCHANGED <<files, filesToCleanUp, idx, combinedText, calls, geminiReply,
                   relayOutcome, labValues, i, analysisItems, isLifeThreatening>>

----------------------------------------------------------------------------
(* Structured extraction, scoring relay, analyzer loop, response. *)

\* what generateContent can do: reject, resolve without a text, with a text that
\* is no JSON, with JSON that has no features, with JSON that has features
GeminiReplies == {"throws", "absent", "unparsable", "nofeatures", "features"}

\* mutant: only a rejected call throws, the parse of the reply never does
ExtractionThrowsOnCallOnly(reply) == reply = "throws"

\* whether lines 194-204 throw: the call rejects, or JSON.parse(geminiResponse.text)
\* is given undefined or a text that is no JSON
ExtractionThrows(reply) == reply \in {"throws", "absent", "unparsable"}

\* structuredData.features || []
FeaturesOrEmpty(reply, features) == IF reply = "features" THEN features ELSE <<>>

\* generateContent settles; on a parsed reply the POST to the scoring service starts
GenerateDone(vectors) ==
    /\ pc = "awaitGenerate"
    /\ UNCHANGED <<storage, now, written>>
    /\ \E reply \in GeminiReplies :
       \E features \in (IF reply = "features" THEN vectors ELSE {<<>>}) :
         /\ geminiReply' = reply
         /\ IF ExtractionThrows(reply)
            THEN /\ Catch
                 /\ UNCHANGED <<labValues, calls>>
            ELSE /\ labValues' = FeaturesOrEmpty(reply, features)
                 /\ calls' = Called(calls, "fetch")
                 /\ pc' = "awaitFetch"
                 /\ UNCHANGED <<unlinked, unlinkState, cleanups, res>>
    /\ UNCHANGED <<files, filesToCleanUp, idx, combinedText, ocrLog, relayOutcome, i,
                   analysisItems, isLifeThreatening>>

\* what fetch can do: reject (network error), resolve with a non-2xx status,
\* resolve with fetchResponse.ok
FetchOutcomes == {"neterror", "non2xx", "ok"}

\* fetch settles: a rejection reaches the catch block, a non-2xx status is logged,
\* an ok response is read with fetchResponse.json()
FetchDone ==
    /\ pc = "awaitFetch"
    /\ UNCHANGED <<storage, now, written>>
    /\ \E outcome \in FetchOutcomes :
         /\ relayOutcome' = outcome
         /\ IF outcome = "neterror"
            THEN Catch
            ELSE /\ pc' = IF outcome = "ok" THEN "awaitJson" ELSE "analyze"
                 /\ UNCHANGED <<unlinked, unlinkState, cleanups, res>>
    /\ UNCHANGED <<files, filesToCleanUp, idx, combinedText, calls, ocrLog, geminiReply,
                   labValues, i, analysisItems, isLifeThreatening>>

\* fetchResponse.json() resolves: the result is logged
JsonOk ==
    /\ pc = "awaitJson"
    /\ UNCHANGED <<storage, now, written>>
    /\ relayOutcome' = "okjson"
    /\ pc' = "analyze"
    /\ UNCHANGED <<files, filesToCleanUp, unlinked, unlinkState, cleanups, idx,
                   combinedText, calls, ocrLog,
                   geminiReply, labValues, i, analysisItems, isLifeThreatening, res>>

\* fetchResponse.json() rejects (the body is no JSON): the catch block runs
JsonThrows ==
    /\ pc = "awaitJson"
    /\ UNCHANGED <<storage, now, written>>
    /\ relayOutcome' = "badjson"
    /\ Catch
    /\ UNCHANGED <<files, filesToCleanUp, idx, combinedText, calls, ocrLog, geminiReply,
                   labValues, i, analysisItems, isLifeThreatening>>

\* mutant: the flag is assigned on every iteration
NextFlagOverwritten(flag, k, value) == SetsFlag(k, value)

\* isLifeThreatening after the iteration for ORDERED_KEYS[k]
NextFlag(flag, k, value) == IF SetsFlag(k, value) THEN TRUE ELSE flag

\* one iteration of the analyzer loop
AnalyzeStep ==
    /\ pc = "analyze"
    /\ UNCHANGED <<storage, now, written>>
    /\ LoopContinues(i, labValues)
    /\ analysisItems' = Append(analysisItems, ItemFor(i + 1, labValues[i + 1]))
    /\ isLifeThreatening' = NextFlag(isLifeThreatening, i + 1, labValues[i + 1])
    /\ i' = i + 1
    /\ UNCHANGED <<pc, files, filesToCleanUp, unlinked, unlinkState, cleanups, idx,
                   combinedText, calls, ocrLog,
                   geminiReply, relayOutcome, labValues, res>>

\* the paths the success path hands to fs.unlink
SuccessUnlinks(registered) == registered

\* the loop is left: unlink every registered path, send the analysis with 200
Respond ==
    /\ pc = "analyze"
    /\ UNCHANGED <<storage, now, written>>
    /\ ~LoopContinues(i, labValues)
    /\ Unlink(SuccessUnlinks(filesToCleanUp), "success")
    /\ res' = analysisResult(files, analysisItems, isLifeThreatening)
    /\ pc' = "done"
    /\ UNCHANGED <<files, filesToCleanUp, idx, combinedText, calls, ocrLog, geminiReply,
                   relayOutcome, labValues, i, analysisItems, isLifeThreatening>>

\* how an fs.unlink call can settle: a path that is not in the directory
\* gives ENOENT, a path that is there is removed or the removal fails
UnlinkOutcomes(path, present) == IF path \in present THEN {"ok", "err"} ELSE {"err"}

\* mutant: a failed deletion replaces the response
SettledResponseEscalates(r, outcome) ==
    IF outcome = "err" THEN Failure(500, MsgError) ELSE r

\* the response after an unlink callback ran: `() => {}` at the validation
\* site, `(err) => { if (err) console.error(...) }` at the other two
SettledResponse(r, outcome) == r

\* one fs.unlink call settles and its callback runs
UnlinkSettles ==
    /\ \E k \in 1..Len(unlinked) :
         /\ unlinkState[k] = "pending"
         /\ \E outcome \in UnlinkOutcomes(unlinked[k], storage) :
              /\ unlinkState' = [unlinkState EXCEPT ![k] = outcome]
              /\ storage' = IF outcome = "ok" THEN storage \ {unlinked[k]} ELSE storage
              /\ res' = SettledResponse(res, outcome)
    /\ UNCHANGED <<pc, files, filesToCleanUp, unlinked, cleanups, idx, combinedText,
                   calls, ocrLog, geminiReply, relayOutcome, labValues, i,
                   analysisItems, isLifeThreatening, now, written>>

Next ==
    \/ Start
    \/ ConvertOk
    \/ ConvertFails
    \/ RecognizeOk
    \/ RecognizeThrows
    \/ GenerateDone(SampleVectors)
    \/ FetchDone
    \/ JsonOk
    \/ JsonThrows
    \/ AnalyzeStep
    \/ Respond

\* the handler's own steps, up to its response
Spec == Init /\ [][Next]_vars

\* The handler together with the settlement of the unlink calls it issued,
\* for the batches of at most MaxCleanupFiles files.
ShortBatches == { ms \in Batches : Len(ms) <= MaxCleanupFiles }

InitCleanup == InitFrom(ShortBatches)

NextCleanup == Next \/ UnlinkSettles

SpecCleanup == InitCleanup /\ [][NextCleanup]_vars

\* The handler under the scheduling Node gives it: a started handler runs to
\* its next await and every collaborator but the scoring service settles its
\* call.  Nothing makes the scoring service answer: node-fetch is called
\* without a timeout or an abort signal.
SpecRelaySilent ==
    /\ Init
    /\ [][Next]_vars
    /\ WF_vars(Start)
    /\ WF_vars(ConvertOk \/ ConvertFails)
    /\ WF_vars(RecognizeOk \/ RecognizeThrows)
    /\ WF_vars(GenerateDone(SampleVectors))
    /\ WF_vars(JsonOk \/ JsonThrows)
    /\ WF_vars(AnalyzeStep)
    /\ WF_vars(Respond)

----------------------------------------------------------------------------
(* The naming scheme alone: the names multer and convertPdfToImage give to  *)
(* the files of two requests while the clock advances.                      *)

Requests == {"r1", "r2"}

\* the original names a client can give to a file
ClientNames == {1, 2}

InitStorage == InitFrom({<<>>})

\* the millisecond clock advances
Tick ==
    /\ now < MaxTick
    /\ now' = now + 1
    /\ UNCHANGED <<pc, files, filesToCleanUp, unlinked, unlinkState, storage, cleanups,
                   idx, combinedText, calls, ocrLog, geminiReply, relayOutcome,
                   labValues, i, analysisItems, isLifeThreatening, res, written>>

\* a file is written under the path p for the request r (an existing file
\* of that path is overwritten)
Write(r, p) ==
    /\ Len(written) < MaxWritten
    /\ written' = Append(written, [req |-> r, path |-> p])
    /\ storage' = storage \cup {p}
    /\ UNCHANGED <<pc, files, filesToCleanUp, unlinked, unlinkState, cleanups, idx,
                   combinedText, calls, ocrLog, geminiReply, relayOutcome, labValues,
                   i, analysisItems, isLifeThreatening, res, now>>

\* multer stores a file of a request: filename(req, file, cb)
StoreUpload == \E r \in Requests : \E name \in ClientNames : Write(r, UploadPath(now, name))

\* a request's PDF is rasterized: convertPdfToImage
StorePage == \E r \in Requests : Write(r, convertPdfToImage(now))

NextStorage == Tick \/ StoreUpload \/ StorePage

SpecStorage == InitStorage /\ [][NextStorage]_vars

----------------------------------------------------------------------------
(* The analyzer alone, over many feature vectors: the handler stands at    *)
(* the loop's entry after a one-image batch went through every earlier     *)
(* stage.                                                                  *)

InitAnalyzer ==
    /\ pc = "analyze"
    /\ now = 1
    /\ files = AsFiles(<< <<"image", "png">> >>, <<1>>, now)
    /\ storage = Range(Paths(files))
    /\ written = <<>>
    /\ filesToCleanUp = Paths(files)
    /\ unlinked = <<>>
    /\ unlinkState = <<>>
    /\ cleanups = <<>>
    /\ idx = 2
    /\ combinedText = <<Segment(1, "text")>>
    /\ calls = [c \in Collaborators |-> IF c = "convert" THEN 0 ELSE 1]
    /\ ocrLog = <<"text">>
    /\ geminiReply = "features"
    /\ relayOutcome = "okjson"
    /\ labValues \in ProbeVectors(MaxVecLen) \cup SampleVectors
    /\ i = 0
    /\ analysisItems = <<>>
    /\ isLifeThreatening = FALSE
    /\ res = NoResponse

NextAnalyzer == AnalyzeStep \/ Respond

SpecAnalyzer == InitAnalyzer /\ [][NextAnalyzer]_vars

----------------------------------------------------------------------------
(* Vocabulary of the properties. *)

NumImages == Cardinality({ k \in 1..Len(files) : files[k].mimetype[1] = "image" })

NumPdfs == Cardinality({ k \in 1..Len(files) : files[k].mimetype = <<"application", "pdf">> })

\* the admission policy as the specification words it
PolicyViolated == NumPdfs > 1 \/ NumImages > 3 \/ (NumPdfs >= 1 /\ NumImages >= 1)

\* the 400 answer of the validation step (either of its two messages)
ValidationResponse == res.status = 400 /\ res.message \in {MsgNoFiles, MsgPolicy}

\* the batch passed validation: its paths were registered
Admitted == pc # "start" /\ ~ValidationResponse

\* the batch has the shape the policy names: 1 to 3 images, or one PDF
PolicyShaped ==
    \/ Len(files) \in 1..3 /\ NumImages = Len(files)
    \/ Len(files) = 1 /\ NumPdfs = 1

\* some recognized file gave readable text
UsableText == \E n \in 1..Len(combinedText) : combinedText[n].text = "text"

NoCollaboratorCalled == \A c \in Collaborators : calls[c] = 0

Mimes(ms) == Len(files) = Len(ms) /\ \A k \in 1..Len(ms) : files[k].mimetype = ms[k]

Img == <<"image", "png">>
Pdf == <<"application", "pdf">>
Txt == <<"text", "plain">>

----------------------------------------------------------------------------
(* Properties. *)

\* C1: when the handler has finished with an admitted batch (200, 400 no text,
\* 500), every path registered in filesToCleanUp has been handed to fs.unlink
\* (stated for the batches the policy names).
C1_RegisteredPathsUnlinked ==
    (pc = "done" /\ Admitted /\ PolicyShaped) =>
        Range(filesToCleanUp) \subseteq Range(unlinked)

\* C2: the batch gets the 400 validation answer if and only if it is empty, has
\* more than one PDF, more than three images, or a PDF together with an image;
\* [], 4 images, 2 PDFs, PDF + image are rejected, 3 images and 1 PDF are not.
C2_ValidationIff ==
    pc # "start" =>
        /\ ValidationResponse <=> (Len(files) = 0 \/ PolicyViolated)
        /\ (Mimes(<<>>) \/ Mimes(<<Img, Img, Img, Img>>) \/ Mimes(<<Pdf, Pdf>>)
               \/ Mimes(<<Pdf, Img>>)) => ValidationResponse
        /\ (Mimes(<<Img, Img, Img>>) \/ Mimes(<<Pdf>>)) => ~ValidationResponse

C2_Witness ==
    /\ pc = "done"
    /\ Mimes(<<Img, Img, Img, Img>>)
    /\ res = Failure(400, MsgPolicy)

\* C3: an admitted batch is at most 3 files that are all images, or exactly one
\* file that is a PDF.
C3_AdmittedShape ==
    Admitted => PolicyShaped

\* C4: when validation rejects a non-empty batch, every file of the batch has
\* been handed to fs.unlink in the rejecting step, the answer is the 400
\* validation response, and no collaborator was called and nothing was produced.
C4_RejectionUnlinksAndStops ==
    (pc # "start" /\ Len(files) > 0 /\ PolicyViolated) =>
        /\ pc = "done"
        /\ res = Failure(400, MsgPolicy)
        /\ \A k \in 1..Len(files) : files[k].path \in Range(unlinked)
        /\ NoCollaboratorCalled
        /\ combinedText = <<>> /\ filesToCleanUp = <<>>

C4_Witness ==
    /\ pc = "done"
    /\ Mimes(<<Pdf, Img, Txt>>)
    /\ unlinked = <<files[1].path, files[2].path, files[3].path>>
    /\ Cardinality(Range(unlinked)) = 3

\* C5: in an admitted batch of several images, a failed recognition of one file
\* only skips that file: it does not end the invocation while files remain, and
\* the text stage does not answer 500.
C5_RecognitionFailureSkipsFile ==
    (Admitted /\ Len(files) >= 2 /\ NumImages = Len(files)
        /\ "recognizeFailed" \in Range(ocrLog)) =>
        /\ Len(ocrLog) < Len(files) => pc # "done"
        /\ ~(res.status = 500 /\ geminiReply = "none")

\* C6: when the loop over an admitted batch has ended and no file gave usable
\* text (every recognized text blank, or every file skipped), the answer is the
\* 400 no-text response and neither generateContent nor the relay is called
\* (stated for the batches the policy names).
C6_NoUsableTextStops ==
    (Admitted /\ PolicyShaped /\ idx > Len(files)
        /\ \A n \in 1..Len(combinedText) : combinedText[n].text = "blank") =>
        /\ calls["generateContent"] = 0
        /\ calls["fetch"] = 0
        /\ pc = "done" /\ res = Failure(400, MsgNoText)

\* C7: whatever the scoring relay did (ok, non-2xx, malformed body, network
\* error), the finished invocation answered 200 with the analysis (stated for
\* the batches the policy names, with readable text).
C7_RelayNeverSurfaces ==
    (pc = "done" /\ PolicyShaped /\ UsableText /\ relayOutcome # "none") =>
        /\ res.status = 200
        /\ Len(res.items) = (IF Len(labValues) < Len(ORDERED_KEYS)
                             THEN Len(labValues) ELSE Len(ORDERED_KEYS))

C9_MissingValueRule ==
    \A k \in 1..Len(analysisItems) :
        labValues[k] = 0 =>
            IF RangeOf(k)[1] <= 0 /\ 0 <= RangeOf(k)[2]
            THEN analysisItems[k] =
                    [category |-> "Green", name |-> ORDERED_KEYS[k], deviation |-> 0]
            ELSE analysisItems[k] =
                    [category |-> "Yellow", name |-> ORDERED_KEYS[k] \o MissingSuffix,
                     deviation |-> 0]

HasRed(items) == \E n \in 1..Len(items) : items[n].category = "Red"

\* C10: the flag is true exactly when an item emitted so far is Red, so the
\* returned isLifeThreatening is true iff a returned item is Red; and a step of
\* the handler never takes the flag from true to false.
C10_TriageFlag ==
    /\ [](/\ isLifeThreatening <=> HasRed(analysisItems)
          /\ res.status = 200 => (res.isLifeThreatening <=> HasRed(res.items)))
    /\ [][isLifeThreatening => isLifeThreatening']_vars

C10_Witness ==
    /\ res.status = 200
    /\ res.isLifeThreatening
    /\ Len(res.items) = Len(ORDERED_KEYS)
    /\ res.items[3].category = "Red"
    /\ res.items[Len(ORDERED_KEYS)].category = "Green"

----------------------------------------------------------------------------
(* Properties of the items list. *)

Min(a, b) == IF a < b THEN a ELSE b

\* the item at position k was pushed by the missing-value branch
Suffixed(items, k) == items[k].name = ORDERED_KEYS[k] \o MissingSuffix

\* the limit calculateDeviation compares the k-th value with
LimitOf(k, value) == IF value > RangeOf(k)[2] THEN RangeOf(k)[2] ELSE RangeOf(k)[1]

InRange(k, value) == value >= RangeOf(k)[1] /\ value <= RangeOf(k)[2]

\* C11: the items list has min(length of the vector, 19) entries, the k-th
\* named by the k-th catalog name with or without the missing-value suffix;
\* nothing is dropped, duplicated or reordered.
C11_ItemsFollowCatalog ==
    /\ Len(ORDERED_KEYS) = 19
    /\ Len(analysisItems) = i
    /\ \A k \in 1..Len(analysisItems) :
          analysisItems[k].name \in {ORDERED_KEYS[k], ORDERED_KEYS[k] \o MissingSuffix}
    /\ (pc = "done" /\ res.status = 200) =>
          /\ res.items = analysisItems
          /\ Len(res.items) = Min(Len(labValues), 19)

C11_Witness ==
    /\ pc = "done" /\ res.status = 200
    /\ Len(labValues) > 19 /\ Len(res.items) = 19
    /\ \E k \in 1..19 : Suffixed(res.items, k)
    /\ \E k \in 1..19 : ~Suffixed(res.items, k)

RoundHalfAway(n, d) ==
    IF n >= 0 THEN (2 * n + d) \div (2 * d) ELSE 0 - ((2 * (0 - n) + d) \div (2 * d))

C20_GreenOnlyInRange ==
    \A k \in 1..Len(analysisItems) :
        (~Suffixed(analysisItems, k) /\ analysisItems[k].category = "Green")
            => InRange(k, labValues[k])

----------------------------------------------------------------------------
(* Properties of the cleanup, the relay and the storage names. *)

\* the step in which one unlink call settles
Settles == \E k \in 1..Len(unlinkState) :
              /\ Len(unlinkState') = Len(unlinkState)
              /\ unlinkState[k] = "pending" /\ unlinkState'[k] # "pending"

NoDuplicates(seq) == \A a, b \in 1..Len(seq) : a # b => seq[a] # seq[b]

\* C14: a failed deletion is not escalated: the response of each cleanup
\* site is the one the site sends whatever its unlink calls do, a settling
\* unlink changes neither the response nor the handler's position, and the
\* site has issued the deletion of every path of its list.
C14_UnlinkFailureNotEscalated ==
    /\ [](/\ cleanups = <<"validation">> =>
                 res = Failure(400, MsgPolicy) /\ unlinked = Paths(files)
          /\ cleanups = <<"success">> =>
                 res.status = 200 /\ unlinked = filesToCleanUp
          /\ cleanups = <<"error">> =>
                 res = Failure(500, MsgError) /\ unlinked = filesToCleanUp
          /\ Len(unlinkState) = Len(unlinked))
    /\ [][Settles => (res' = res /\ pc' = pc /\ unlinked' = unlinked)]_vars

C14_Witness ==
    /\ res.status = 200
    /\ Len(unlinked) = 2
    /\ unlinkState = <<"err", "ok">>
    /\ unlinked[1] \in storage

\* C15: once the feature vector is extracted and the relay call is made,
\* the response is eventually sent, whether or not the relay answers.
C15_RelayNeverBlocks == (pc = "awaitFetch") ~> (res.status # 0)

\* C16: no path has its deletion issued twice: filesToCleanUp holds no path
\* twice, no path is handed to fs.unlink twice, and at most one cleanup
\* site runs.
C16_NoPathUnlinkedTwice ==
    /\ NoDuplicates(filesToCleanUp)
    /\ NoDuplicates(unlinked)
    /\ Len(cleanups) <= 1

\* C17: a failed rasterization skips the file: no recognition call for it,
\* no segment, no registered page image, no 500 response, and the loop goes
\* on with the next file of the batch.
C17_FailedConversionSkipsFile ==
    [][(pc = "awaitConvert" /\ ocrLog' = Append(ocrLog, "convertFailed")) =>
          /\ combinedText' = combinedText
          /\ filesToCleanUp' = filesToCleanUp
          /\ res'.status # 500
          /\ idx' = idx + 1
          /\ idx < Len(files) =>
                /\ res' = res
                /\ pc' = IF IsPdf(files[idx + 1]) THEN "awaitConvert" ELSE "awaitRecognize"
          /\ calls'["recognize"] =
                calls["recognize"]
                  + (IF idx < Len(files) /\ ~IsPdf(files[idx + 1]) THEN 1 ELSE 0)
      ]_vars

C17_Witness ==
    /\ PolicyShaped
    /\ Mimes(<<Pdf>>)
    /\ ocrLog = <<"convertFailed">>
    /\ calls["recognize"] = 0
    /\ filesToCleanUp = Paths(files)
    /\ res.status = 400

\* C18: no two files get the same storage path, whichever requests they
\* belong to and whatever their original names and the clock.
C18_DistinctStoragePaths == NoDuplicates([k \in 1..Len(written) |-> written[k].path])

\* C19: when the 200 or 500 response is sent, every file of the batch has
\* been removed from storage and no deletion is pending.
C19_RemovedBeforeResponse ==
    res.status \in {200, 500} =>
        /\ \A k \in 1..Len(files) : files[k].path \notin storage
        /\ \A k \in 1..Len(unlinkState) : unlinkState[k] # "pending"

====
